---- MODULE Spec2Model ----
(***************************************************************************)
(* Earthwork excavation cross-section plotter (src/app.py): the handler of *)
(* the "Generate Cross Section Plots" button, modelled step by step.       *)
(*                                                                         *)
(* Numbers are fixed point integers:                                       *)
(*   widths (fw, ow) and chainages   metres                                *)
(*   height fh                       centimetres                           *)
(*   area coefficient ac             hundredths                            *)
(*   area                            1/10000 m2   (= ac * (fw-ow) * fh)    *)
(*   volume                          1/20000 m3   (so that /2 is exact)    *)
(* A missing spreadsheet cell is pandas' NaN; arithmetic propagates it.    *)
(***************************************************************************)
EXTENDS Integers, Sequences, FiniteSets, TLC

VARIABLES
  table,            \* the uploaded sheet: the rows below the header row
  summary,          \* summary_file or use_manual_summary
  pc,               \* the step of the handler that runs next
  error,            \* the exception the handler's except clause reported
  index,            \* data.index: the label of each remaining row
  data,             \* the seven input columns of the remaining rows
  Area,             \* data['Area (m2)']
  chainage_values,
  volume_list, i,   \* the volume loop
  Volume,           \* data['Volume (m3)']
  fig, axs,         \* the page being filled and its subplot slots
  plot_count, idx,  \* the plot loop; idx is the next position of iterrows()
  preview_imgs,
  pdf,              \* the pages saved so far
  minimal_df, total_row

vars == <<table, summary, pc, error, index, data, Area, chainage_values,
          volume_list, i, Volume, fig, axs, plot_count, idx, preview_imgs,
          pdf, minimal_df, total_row>>

\* ------------------------------------------------------------------ bounds
MaxRows == 3
MaxLongRows == 42

\* --------------------------------------------------------- program constants
rows == 2
cols == 2
DefaultAngle == 75
PreviewLimit == 40
Decimals == 3

\* ------------------------------------------------------------------- cells
\* A spreadsheet cell: a number, a missing value (NaN) or a non-numeric text.
Num(x) == [t |-> "num", v |-> x]
NaN == [t |-> "nan", v |-> 0]
Text == [t |-> "str", v |-> 0]
\* A chainage cell: its text, or missing.
Ch(s) == [t |-> "str", s |-> s]
ChMissing == [t |-> "nan", s |-> <<>>]

notna(c) == c.t # "nan"

\* float arithmetic on cells, NaN propagating
Add(a, b) == IF a.t = "num" /\ b.t = "num" THEN Num(a.v + b.v) ELSE NaN
Sub(a, b) == IF a.t = "num" /\ b.t = "num" THEN Num(a.v - b.v) ELSE NaN
Mul(a, b) == IF a.t = "num" /\ b.t = "num" THEN Num(a.v * b.v) ELSE NaN

\* ------------------------------------------------------- chainage parsing
Digits == {"0", "1", "2", "3", "4", "5", "6", "7", "8", "9"}
DigitValue ==
  ("0" :> 0) @@ ("1" :> 1) @@ ("2" :> 2) @@ ("3" :> 3) @@ ("4" :> 4) @@
  ("5" :> 5) @@ ("6" :> 6) @@ ("7" :> 7) @@ ("8" :> 8) @@ ("9" :> 9)

\* astype(str): a missing cell becomes the text "nan"
astype_str(c) == IF c.t = "nan" THEN <<"n", "a", "n">> ELSE c.s

\* str.replace("+", "")
RECURSIVE str_replace_plus(_)
str_replace_plus(s) ==
  IF s = <<>> THEN <<>>
  ELSE IF Head(s) = "+" THEN str_replace_plus(Tail(s))
       ELSE <<Head(s)>> \o str_replace_plus(Tail(s))

RECURSIVE DigitsToInt(_, _)
DigitsToInt(s, acc) ==
  IF s = <<>> THEN acc ELSE DigitsToInt(Tail(s), acc * 10 + DigitValue[Head(s)])

AllDigits(s) == s # <<>> /\ \A k \in 1..Len(s) : s[k] \in Digits

\* float(text): does the conversion succeed, and its value.  The texts of the
\* model are made of digits, "+" and letters; of the letter texts float()
\* accepts "nan".
float_ok(s) == AllDigits(s) \/ s = <<"n", "a", "n">>
float_of(s) == IF AllDigits(s) THEN Num(DigitsToInt(s, 0)) ELSE NaN

\* data['Chainage'].astype(str).str.replace("+", "").astype(float)
ChainageText(c) == str_replace_plus(astype_str(c))
ParseChainage(c) == float_of(ChainageText(c))

\* ----------------------------------------------------------------- rounding
RECURSIVE Pow10(_)
Pow10(n) == IF n = 0 THEN 1 ELSE 10 * Pow10(n - 1)

\* numpy's around: the nearest multiple of `step`, a tie going to the even
\* multiple (rint of the scaled value; the scaling error of binary floats on
\* an exact tie is not modelled).  NaN stays NaN.
RoundHalfEven(c, step) ==
  IF c.t # "num" THEN c
  ELSE LET q == c.v \div step
           r == c.v % step
       IN  IF 2 * r < step THEN Num(q * step)
           ELSE IF 2 * r > step THEN Num((q + 1) * step)
           ELSE IF q % 2 = 0 THEN Num(q * step) ELSE Num((q + 1) * step)

\* Series.round(3) of an area (1/10000 m2) and of a volume (1/20000 m3)
round_area(c) == RoundHalfEven(c, 10000 \div Pow10(Decimals))
round_volume(c) == RoundHalfEven(c, 20000 \div Pow10(Decimals))

\* --------------------------------------------------------------- input rows
Row(sno, ch, fw, fh, ow, ac, angle) ==
  [SNo |-> sno, Chainage |-> ch, FinishedRoadwayWidth |-> fw,
   FinishedVerticalHeight |-> fh, OriginalRoadwayWidth |-> ow,
   AreaCoefficient |-> ac, CuttingSlope |-> angle]

\* the spec's example station: fw 10, fh 2.00, ow 6, ac 0.5, angle 90
Station(ch) == Row(Num(1), Ch(ch), Num(10), Num(200), Num(6), Num(50), Num(90))

SampleRows ==
  \* complete stations at chainage 0, 50 and "0+100"
  { Station(c) : c \in {<<"0">>, <<"5", "0">>, <<"0", "+", "1", "0", "0">>} }
  \* original width larger than the finished one, every kind of angle cell
  \cup { Row(Num(1), Ch(<<"5", "0">>), Num(10), Num(200), Num(12), Num(50), a) :
           a \in {Num(90), Num(0), NaN, Text} }
  \* a missing S.No, a missing width, a missing and a non-numeric chainage
  \cup { Row(NaN, Ch(<<"5", "0">>), Num(10), Num(200), Num(6), Num(50), Num(90)),
         Row(Num(1), Ch(<<"5", "0">>), NaN, Num(200), Num(6), Num(50), Num(90)),
         Row(Num(1), ChMissing, Num(10), Num(200), Num(6), Num(50), Num(90)),
         Row(Num(1), Ch(<<"x">>), Num(10), Num(200), Num(6), Num(50), Num(90)) }
  \* a station whose volumes do not fall on a multiple of 0.001
  \cup { Row(Num(1), Ch(<<"3">>), Num(10), Num(201), Num(6), Num(67), Num(90)) }

Tables == UNION { [1..n -> SampleRows] : n \in 1..MaxRows }

\* long sheets: the example station repeated, at most one row deviating
LongBase == Station(<<"5", "0">>)
LongSpecial ==
  { Row(NaN, Ch(<<"5", "0">>), Num(10), Num(200), Num(6), Num(50), Num(90)),
    Row(Num(1), Ch(<<"5", "0">>), NaN, Num(200), Num(6), Num(50), Num(90)),
    Row(Num(1), Ch(<<"5", "0">>), Num(10), Num(200), Num(12), Num(50), Num(0)) }
LongTables ==
  { [k \in 1..n |-> LongBase] : n \in 1..MaxLongRows }
  \cup { [k \in 1..n |-> IF k = j THEN r ELSE LongBase] :
           n \in 1..MaxLongRows, j \in 1..MaxLongRows, r \in LongSpecial }

\* ------------------------------------------------------------ Step 2: area
\* a variant that clamps a negative area to 0
AreaOfRow_clamped(row) ==
  LET a == Mul(Mul(row.AreaCoefficient,
                   Sub(row.FinishedRoadwayWidth, row.OriginalRoadwayWidth)),
               row.FinishedVerticalHeight)
  IN  IF a.t = "num" /\ a.v < 0 THEN Num(0) ELSE a

\* row['Area Coefficient'] * (row['Finished Roadway Width']
\*   - row['Original Roadway Width']) * row['Finished Vertical Height']
AreaOfRow(row) ==
  Mul(Mul(row.AreaCoefficient,
          Sub(row.FinishedRoadwayWidth, row.OriginalRoadwayWidth)),
      row.FinishedVerticalHeight)

\* a variant using the single-end rule: a2 * (ch2 - ch1)
SegmentVolume_single_end(a1, a2, ch1, ch2) == Mul(Add(a2, a2), Sub(ch2, ch1))

\* ((a1 + a2) / 2) * (ch2 - ch1), in 1/20000 m3
SegmentVolume(a1, a2, ch1, ch2) == Mul(Add(a1, a2), Sub(ch2, ch1))

\* data.at[label, column]: the position holding the index label, 0 if none
PositionOf(ix, label) ==
  IF \E k \in 1..Len(ix) : ix[k] = label
  THEN CHOOSE k \in 1..Len(ix) : ix[k] = label
  ELSE 0

\* ------------------------------------------------ plot_chainage_subplot
\* 1 / tan(radians(angle)) in thousandths, for the angles of the model
CotMilli == (75 :> 268) @@ (90 :> 0)

DigitChar == <<"0", "1", "2", "3", "4", "5", "6", "7", "8", "9">>
RECURSIVE IntToStr(_)
IntToStr(n) ==
  IF n < 10 THEN <<DigitChar[n + 1]>>
  ELSE IntToStr(n \div 10) \o <<DigitChar[(n % 10) + 1]>>

\* f"{m:03d}"
Pad3(m) ==
  LET d == IntToStr(m)
  IN  IF Len(d) = 1 THEN <<"0", "0">> \o d
      ELSE IF Len(d) = 2 THEN <<"0">> \o d ELSE d

\* int(float(chainage)) formatted as km+mmm, or str(chainage)
chainage_str(chainage) ==
  IF chainage.t = "str" /\ AllDigits(chainage.s)
  THEN LET ch_int == DigitsToInt(chainage.s, 0)
           km == ch_int \div 1000
           m == ch_int % 1000
       IN  IntToStr(km) \o <<"+">> \o Pad3(m)
  ELSE astype_str(chainage)

\* what plot_chainage_subplot leaves on the axes.  drawn = FALSE: the function
\* returned before drawing anything.
Blank ==
  [drawn |-> FALSE, slope |-> 0, h1_coef |-> 0, area |-> NaN,
   fg_x |-> <<>>, fg_y |-> <<>>, og_x |-> <<>>, og_y |-> <<>>, title |-> <<>>]

\* angle_deg = float(angle_deg) if pd.notna(angle_deg) else 75
AngleRaises(angle_deg) ==
  \/ angle_deg.t = "str"                        \* float() of a non-numeric text
  \/ angle_deg.t = "num" /\ angle_deg.v = 0     \* raise ValueError
AngleOf(angle_deg) == IF notna(angle_deg) THEN angle_deg.v ELSE DefaultAngle

\* area = ac * (fw - ow) * fh
PlotArea(ac, fw, ow, fh) == Mul(Mul(ac, Sub(fw, ow)), fh)

\* x in 1/20000000 m, y in 1/10000 m; called on rows without a missing field
plot_chainage_subplot(entry) ==
  IF AngleRaises(entry.CuttingSlope) THEN Blank
  ELSE
    LET fw == entry.FinishedRoadwayWidth.v
        fh == entry.FinishedVerticalHeight.v
        ow == entry.OriginalRoadwayWidth.v
        ac == entry.AreaCoefficient.v
        slope == CotMilli[AngleOf(entry.CuttingSlope)]
        h1_coef == (ac - 50) * 2
        x1 == -(fw * 10000000)
        x3 == fw * 10000000
        x4 == x3 + slope * fh * 200
        x6 == x1 + ow * 20000000
        x7 == x6 + h1_coef * fh * slope * 2
    IN  [drawn |-> TRUE, slope |-> slope, h1_coef |-> h1_coef,
         area |-> PlotArea(entry.AreaCoefficient, entry.FinishedRoadwayWidth,
                           entry.OriginalRoadwayWidth,
                           entry.FinishedVerticalHeight),
         fg_x |-> <<x1, 0, x3, x4>>, fg_y |-> <<0, 0, 0, fh * 100>>,
         og_x |-> <<x1, x6, x7, x4>>, og_y |-> <<0, 0, h1_coef * fh, fh * 100>>,
         title |-> chainage_str(entry.Chainage)]

\* ------------------------------------------------------------ pages, slots
NoAxes == [used |-> FALSE, label |-> -1, plot |-> Blank]
NewAxes == [k \in 1..(rows * cols) |-> NoAxes]
Page(kind, f, axes) == [kind |-> kind, fig |-> f, axes |-> axes]

\* row.notna().all() over the seven input columns, the area and the volume
RowNotnaAll(row, area, volume) ==
  /\ notna(row.SNo) /\ notna(row.Chainage)
  /\ notna(row.FinishedRoadwayWidth) /\ notna(row.FinishedVerticalHeight)
  /\ notna(row.OriginalRoadwayWidth) /\ notna(row.AreaCoefficient)
  /\ notna(row.CuttingSlope)
  /\ notna(area) /\ notna(volume)

\* plot_count % (rows * cols) == 0 after the increment: the page is full
PageFull(count) == count % (rows * cols) = 0
\* a variant that saves the last page whatever it holds
PageLeft_always(count) == TRUE

\* plot_count % (rows * cols) != 0 after the loop: a partly filled page is left
PageLeft(count) == count % (rows * cols) # 0
\* plot_count < 40
WantsPreview(count) == count < PreviewLimit

\* ---------------------------------------------------------------- the sheet
\* Series.sum(): missing values are skipped
RECURSIVE series_sum(_)
series_sum(s) ==
  IF s = <<>> THEN 0
  ELSE (IF Head(s).t = "num" THEN Head(s).v ELSE 0) + series_sum(Tail(s))

\* round(minimal_df["Volume"].sum(), 3)
total_volume_of(volumes) == round_volume(Num(series_sum(volumes)))

\* ------------------------------------------------------------------ actions
NoTotal == [SNo |-> "", Chainage |-> "", Area |-> "", Volume |-> NaN]

Start(t, withSummary) ==
  /\ table = t
  /\ summary \in withSummary
  /\ pc = "read"
  /\ error = "none"
  /\ index = <<>> /\ data = <<>> /\ Area = <<>> /\ chainage_values = <<>>
  /\ volume_list = <<>> /\ i = 0 /\ Volume = <<>>
  /\ fig = 0 /\ axs = <<>> /\ plot_count = 0 /\ idx = 0
  /\ preview_imgs = <<>> /\ pdf = <<>>
  /\ minimal_df = <<>> /\ total_row = NoTotal

Init == \E t \in Tables : Start(t, BOOLEAN)
\* the long sheets come with a summary, so their reports open with its page
InitLong == \E t \in LongTables : Start(t, {TRUE})

\* except Exception as e: st.error(...)
Raise(e) == pc' = "failed" /\ error' = e

\* the positions of the rows that dropna(subset=[S.No]) keeps
RECURSIVE Kept(_, _)
Kept(t, k) ==
  IF k > Len(t) THEN <<>>
  ELSE (IF notna(t[k].SNo) THEN <<k>> ELSE <<>>) \o Kept(t, k + 1)

\* Step 1: read the sheet and drop the rows without an S.No; the remaining
\* rows keep the index labels they were read with
ReadData ==
  /\ pc = "read"
  /\ LET kept == Kept(table, 1)
     IN  /\ index' = [k \in 1..Len(kept) |-> kept[k] - 1]
         /\ data' = [k \in 1..Len(kept) |-> table[kept[k]]]
  /\ pc' = "area"
  /\ UNCHANGED <<table, summary, error, Area, chainage_values, volume_list, i,
                 Volume, fig, axs, plot_count, idx, preview_imgs, pdf,
                 minimal_df, total_row>>

\* Step 2: data['Area (m2)'] = data.apply(...)
ComputeArea ==
  /\ pc = "area"
  /\ Area' = [k \in 1..Len(data) |-> AreaOfRow(data[k])]
  /\ pc' = "chainage"
  /\ UNCHANGED <<table, summary, error, index, data, chainage_values,
                 volume_list, i, Volume, fig, axs, plot_count, idx,
                 preview_imgs, pdf, minimal_df, total_row>>

\* chainage_values = ...astype(float).values; volume_list = [0.0]
ParseChainages ==
  /\ pc = "chainage"
  /\ IF \A k \in 1..Len(data) : float_ok(ChainageText(data[k].Chainage))
     THEN /\ chainage_values' =
               [k \in 1..Len(data) |-> ParseChainage(data[k].Chainage)]
          /\ volume_list' = <<Num(0)>>
          /\ i' = 1
          /\ pc' = "volume"
          /\ error' = error
     ELSE /\ Raise("ValueError")
          /\ UNCHANGED <<chainage_values, volume_list, i>>
  /\ UNCHANGED <<table, summary, index, data, Area, Volume, fig, axs,
                 plot_count, idx, preview_imgs, pdf, minimal_df, total_row>>

\* one pass of: for i in range(1, len(data)).  The chainages are read by
\* position, the areas by index label (data.at).
VolumeStep ==
  /\ pc = "volume"
  /\ i < Len(data)
  /\ LET p1 == PositionOf(index, i - 1)
         p2 == PositionOf(index, i)
     IN  IF p1 = 0 \/ p2 = 0
         THEN /\ Raise("KeyError")
              /\ UNCHANGED <<volume_list, i>>
         ELSE /\ volume_list' =
                   Append(volume_list,
                          SegmentVolume(Area[p1], Area[p2],
                                        chainage_values[i], chainage_values[i + 1]))
              /\ i' = i + 1
              /\ UNCHANGED <<pc, error>>
  /\ UNCHANGED <<table, summary, index, data, Area, chainage_values, Volume,
                 fig, axs, plot_count, idx, preview_imgs, pdf, minimal_df,
                 total_row>>

\* data['Volume (m3)'] = volume_list
VolumeAssign ==
  /\ pc = "volume"
  /\ i >= Len(data)
  /\ IF Len(volume_list) = Len(data)
     THEN /\ Volume' = volume_list
          /\ pc' = "setup"
          /\ error' = error
     ELSE /\ Raise("ValueError")
          /\ Volume' = Volume
  /\ UNCHANGED <<table, summary, index, data, Area, chainage_values,
                 volume_list, i, fig, axs, plot_count, idx, preview_imgs, pdf,
                 minimal_df, total_row>>

\* Step 4, before the loop: the summary page and the first page of plots.
\* (Step 3 only chooses the contract number printed as the page title.)
PlotSetup ==
  /\ pc = "setup"
  /\ pdf' = IF summary THEN <<Page("summary", 0, <<>>)>> ELSE <<>>
  /\ fig' = 1
  /\ axs' = NewAxes
  /\ plot_count' = 0
  /\ preview_imgs' = <<>>
  /\ idx' = 1
  /\ pc' = "plot"
  /\ UNCHANGED <<table, summary, error, index, data, Area, chainage_values,
                 volume_list, i, Volume, minimal_df, total_row>>

\* one pass of: for idx, row in data.iterrows()
PlotRow ==
  /\ pc = "plot"
  /\ idx <= Len(data)
  /\ idx' = idx + 1
  /\ IF RowNotnaAll(data[idx], Area[idx], Volume[idx])
     THEN LET plot == plot_chainage_subplot(data[idx])
              slot == (plot_count % (rows * cols)) + 1
              filled == [axs EXCEPT ![slot] =
                           [used |-> TRUE, label |-> index[idx], plot |-> plot]]
          IN  /\ preview_imgs' =
                   IF WantsPreview(plot_count)
                   THEN Append(preview_imgs, [label |-> index[idx], plot |-> plot])
                   ELSE preview_imgs
              /\ plot_count' = plot_count + 1
              /\ IF PageFull(plot_count + 1)
                 THEN /\ pdf' = Append(pdf, Page("plots", fig, filled))
                      /\ fig' = fig + 1
                      /\ axs' = NewAxes
                 ELSE /\ axs' = filled
                      /\ UNCHANGED <<pdf, fig>>
     ELSE UNCHANGED <<preview_imgs, plot_count, pdf, fig, axs>>
  /\ UNCHANGED <<table, summary, pc, error, index, data, Area, chainage_values,
                 volume_list, i, Volume, minimal_df, total_row>>

\* after the loop: the unused axes of a partly filled page are deleted and the
\* page is saved
FinishPlots ==
  /\ pc = "plot"
  /\ idx > Len(data)
  /\ IF PageLeft(plot_count)
     THEN LET left == SubSeq(axs, 1, plot_count % (rows * cols))
          IN  /\ axs' = left
              /\ pdf' = Append(pdf, Page("plots", fig, left))
     ELSE UNCHANGED <<axs, pdf>>
  /\ pc' = "sheet"
  /\ UNCHANGED <<table, summary, error, index, data, Area, chainage_values,
                 volume_list, i, Volume, fig, plot_count, idx, preview_imgs,
                 minimal_df, total_row>>

\* Step 5: the volume calculation sheet and its Total row
VolumeSheet ==
  /\ pc = "sheet"
  /\ LET sheet == [k \in 1..Len(data) |->
                     [SNo |-> data[k].SNo, Chainage |-> data[k].Chainage,
                      Area |-> round_area(Area[k]),
                      Volume |-> round_volume(Volume[k])]]
     IN  /\ minimal_df' = sheet
         /\ total_row' =
              [SNo |-> "Total", Chainage |-> "", Area |-> "",
               Volume |-> total_volume_of([k \in 1..Len(sheet) |-> sheet[k].Volume])]
  /\ pc' = "done"
  /\ UNCHANGED <<table, summary, error, index, data, Area, chainage_values,
                 volume_list, i, Volume, fig, axs, plot_count, idx,
                 preview_imgs, pdf>>

Next ==
  \/ ReadData
  \/ ComputeArea
  \/ ParseChainages
  \/ VolumeStep
  \/ VolumeAssign
  \/ PlotSetup
  \/ PlotRow
  \/ FinishPlots
  \/ VolumeSheet

Spec == Init /\ [][Next]_vars
LongSpec == InitLong /\ [][Next]_vars

\* ------------------------------------------------------------- vocabulary
Numeric(c) == c.t = "num"

\* the steps after data['Volume (m3)'] was assigned
VolumeDone == pc \in {"setup", "plot", "sheet", "done"}
\* the steps from the plot loop on
Plotting == pc \in {"plot", "sheet", "done"}

\* the plots drawn for the row with index label l: on the saved pages, on the
\* page being filled and among the preview images
SavedPlots(l) ==
  UNION { { pdf[p].axes[s].plot :
              s \in { s \in 1..Len(pdf[p].axes) :
                        pdf[p].axes[s].used /\ pdf[p].axes[s].label = l } } :
          p \in 1..Len(pdf) }
OpenPlots(l) ==
  { axs[s].plot : s \in { s \in 1..Len(axs) : axs[s].used /\ axs[s].label = l } }
PreviewPlots(l) ==
  { preview_imgs[k].plot :
      k \in { k \in 1..Len(preview_imgs) : preview_imgs[k].label = l } }

\* a geometry was produced for the row with index label l
HasGeometry(l) == \E g \in SavedPlots(l) : g.drawn

\* a row all of whose input cells, the angle aside, are usable
FieldsValid(row) ==
  /\ Numeric(row.SNo)
  /\ float_ok(ChainageText(row.Chainage)) /\ notna(row.Chainage)
  /\ Numeric(row.FinishedRoadwayWidth) /\ Numeric(row.FinishedVerticalHeight)
  /\ Numeric(row.OriginalRoadwayWidth) /\ Numeric(row.AreaCoefficient)

\* --------------------------------------------------------------------- C1
\* C1: once the volume column is set, the first station has volume 0 and every
\* later station i has (ch[i] - ch[i-1]) * (a[i-1] + a[i]) / 2 (here in
\* 1/20000 m3, so without the division); chainages 0 and 100 with area 4.0
\* each (40000) give 400.0 (8000000).
C1_EndAreaRule ==
  VolumeDone =>
    /\ Len(Volume) = Len(data)
    /\ Volume[1] = Num(0)
    /\ \A k \in 2..Len(data) :
         /\ ( /\ Numeric(chainage_values[k - 1]) /\ Numeric(chainage_values[k])
              /\ Numeric(Area[k - 1]) /\ Numeric(Area[k]) )
            => Volume[k] = Num((chainage_values[k].v - chainage_values[k - 1].v)
                               * (Area[k - 1].v + Area[k].v))
         /\ ( /\ chainage_values[k - 1] = Num(0) /\ chainage_values[k] = Num(100)
              /\ Area[k - 1] = Num(40000) /\ Area[k] = Num(40000) )
            => Volume[k] = Num(8000000)

C1_Witness ==
  /\ pc = "done"
  /\ Len(data) = 3
  /\ chainage_values[1] = Num(0) /\ chainage_values[2] = Num(100)
  /\ Area[1] = Num(40000) /\ Area[2] = Num(40000)
  /\ Volume[2] = Num(8000000)
  /\ Numeric(Volume[3]) /\ Area[3] # Area[2] /\ Volume[3].v # 0

\* --------------------------------------------------------------------- C2
\* C2: the area of a station is ac * (fw - ow) * fh, negative when ow > fw,
\* whatever the angle cell holds, and every plot drawn for the station shows
\* the same area as the volume table.
C2_AreaFormula ==
  \A k \in 1..Len(Area) :
    LET row == data[k]
    IN  ( /\ Numeric(row.AreaCoefficient) /\ Numeric(row.FinishedRoadwayWidth)
          /\ Numeric(row.OriginalRoadwayWidth)
          /\ Numeric(row.FinishedVerticalHeight) )
        => /\ Area[k] = Num(row.AreaCoefficient.v
                            * (row.FinishedRoadwayWidth.v - row.OriginalRoadwayWidth.v)
                            * row.FinishedVerticalHeight.v)
           /\ \A g \in SavedPlots(index[k]) \cup OpenPlots(index[k])
                         \cup PreviewPlots(index[k]) :
                g.drawn => g.area = Area[k]

C2_Witness ==
  /\ pc = "done"
  /\ \E k \in 1..Len(data) :
       /\ data[k].OriginalRoadwayWidth.v > data[k].FinishedRoadwayWidth.v
       /\ Numeric(Area[k]) /\ Area[k].v < 0
       /\ \E g \in SavedPlots(index[k]) : g.drawn /\ g.area = Area[k]

\* --------------------------------------------------------------------- C3
\* the float sum of a list of volumes: a NaN among them makes the sum NaN
RECURSIVE FloatSum(_)
FloatSum(s) == IF s = <<>> THEN Num(0) ELSE Add(Head(s), FloatSum(Tail(s)))

\* C3: the Total row carries the sum of all segment volumes of the run, and
\* its other fields are blank.
C3_TotalIsSumOfSegments ==
  pc = "done" =>
    /\ total_row.SNo = "Total" /\ total_row.Chainage = "" /\ total_row.Area = ""
    /\ total_row.Volume = FloatSum(Volume)

\* --------------------------------------------------------------------- C4
\* C4: no report is produced that holds a segment whose chainage is smaller
\* than its predecessor's; such a run ends as failed.
C4_DecreasingChainageFails ==
  pc = "done" =>
    \A k \in 2..Len(chainage_values) :
      (Numeric(chainage_values[k - 1]) /\ Numeric(chainage_values[k]))
        => chainage_values[k].v >= chainage_values[k - 1].v

\* --------------------------------------------------------------------- C5
\* a row that passes validation: usable cells and a numeric, non-zero angle
ValidRow(row) ==
  FieldsValid(row) /\ Numeric(row.CuttingSlope) /\ row.CuttingSlope.v # 0

\* C5: in a sheet where every row has its S.No, a row with a missing numeric
\* field, a non-numeric chainage or a zero angle never aborts the run, and
\* every valid row has its geometry in the finished report.
C5_ErrorsAreRowScoped ==
  (\A k \in 1..Len(table) : notna(table[k].SNo)) =>
    /\ pc # "failed"
    /\ pc = "done" =>
         \A k \in 1..Len(data) : ValidRow(data[k]) => HasGeometry(index[k])

\* --------------------------------------------------------------------- C6
\* the positions of the rows a geometry was produced for, in row order
RECURSIVE Survivors(_)
Survivors(k) ==
  IF k > Len(data) THEN <<>>
  ELSE (IF HasGeometry(index[k]) THEN <<k>> ELSE <<>>) \o Survivors(k + 1)

\* C6: the volumes of the report are the end-area integration over the rows
\* that have a geometry, in row order; a skipped row is part of no segment.
C6_OnlySurvivorsIntegrated ==
  pc = "done" =>
    LET S == Survivors(1)
    IN  [k \in 1..Len(minimal_df) |-> minimal_df[k].Volume]
          = [j \in 1..Len(S) |->
               IF j = 1 THEN Num(0)
               ELSE round_volume(
                      Mul(Add(Area[S[j - 1]], Area[S[j]]),
                          Sub(chainage_values[S[j]], chainage_values[S[j - 1]])))]

\* --------------------------------------------------------------------- C7
\* C7: a row whose angle cell is missing or non-numeric, its other fields
\* valid, gets a geometry with slope 1/tan(75 degrees).
C7_AngleDefaultsTo75 ==
  pc = "done" =>
    \A k \in 1..Len(data) :
      (FieldsValid(data[k]) /\ ~Numeric(data[k].CuttingSlope))
        => \E g \in SavedPlots(index[k]) :
             g.drawn /\ g.slope = CotMilli[DefaultAngle]

\* --------------------------------------------------------------------- C8
\* C8: in a produced report, a segment between two stations of the same
\* chainage has volume 0, whatever the two areas are.
C8_ZeroDeltaZeroVolume ==
  pc = "done" =>
    \A k \in 2..Len(minimal_df) :
      ( /\ Numeric(chainage_values[k - 1]) /\ Numeric(chainage_values[k])
        /\ chainage_values[k] = chainage_values[k - 1] )
        => minimal_df[k].Volume = Num(0)

\* --------------------------------------------------------------------- C9
\* C9: dropping rows without an S.No never makes the volume step fail; the
\* volume list has one entry per remaining row and the k-th volume is computed
\* from the chainages and the areas of the (k-1)-th and k-th remaining rows.
C9_DroppedRowsKeepPairing ==
  /\ error # "KeyError"
  /\ VolumeDone =>
       /\ Len(Volume) = Len(data)
       /\ \A k \in 2..Len(data) :
            Volume[k] = Mul(Add(Area[k - 1], Area[k]),
                            Sub(chainage_values[k], chainage_values[k - 1]))

\* -------------------------------------------------------------------- C10
\* the positions below k of the rows without a missing value, in row order
RECURSIVE CompleteRows(_, _)
CompleteRows(k, upto) ==
  IF k > upto THEN <<>>
  ELSE (IF RowNotnaAll(data[k], Area[k], Volume[k]) THEN <<k>> ELSE <<>>)
         \o CompleteRows(k + 1, upto)

IsPlotPage(page) == page.kind = "plots"
PlotPages == SelectSeq(pdf, IsPlotPage)
Min(a, b) == IF a < b THEN a ELSE b

\* C10: in the plot loop every row without a missing value takes exactly one
\* slot, in row order, the j-th such row slot (j-1) mod 4 of page (j-1) div 4;
\* a page is saved exactly when its 4th slot is filled; after the loop a last
\* page is saved iff plot_count mod 4 # 0, its unused slots removed; so
\* ceil(plot_count / 4) plot pages are saved, none twice, none empty, and
\* there are min(plot_count, 40) preview images.
C10_Paging ==
  Plotting =>
    LET P == CompleteRows(1, idx - 1)
        n == rows * cols
        closed == pc # "plot"
        full == plot_count \div n
    IN  /\ plot_count = Len(P)
        /\ Len(preview_imgs) = Min(plot_count, PreviewLimit)
        /\ \A j \in 1..Len(preview_imgs) : preview_imgs[j].label = index[P[j]]
        \* the pages saved so far
        /\ Len(PlotPages) = IF closed THEN (plot_count + n - 1) \div n ELSE full
        /\ \A p \in 1..Len(PlotPages) :
             /\ Len(PlotPages[p].axes) = IF p <= full THEN n ELSE plot_count % n
             /\ Len(PlotPages[p].axes) > 0
             /\ \A s \in 1..Len(PlotPages[p].axes) : PlotPages[p].axes[s].used
             /\ \A q \in 1..Len(PlotPages) : PlotPages[q].fig = PlotPages[p].fig => q = p
        \* where each row went
        /\ \A j \in 1..Len(P) :
             LET p == ((j - 1) \div n) + 1
                 s == ((j - 1) % n) + 1
             IN  IF p <= Len(PlotPages)
                 THEN PlotPages[p].axes[s].label = index[P[j]]
                 ELSE axs[s].used /\ axs[s].label = index[P[j]]
        \* the page being filled holds nothing else
        /\ ~closed => \A s \in 1..n : axs[s].used <=> s <= plot_count % n

C10_Witness ==
  /\ pc = "done"
  /\ plot_count > PreviewLimit
  /\ plot_count % (rows * cols) # 0
  /\ plot_count < Len(data)
  /\ Len(PlotPages) = 11
  /\ Len(preview_imgs) = PreviewLimit

====
